---- MODULE Spec2Model ----
(***************************************************************************)
(* ValidationResultsTableContentBlockRenderer                             *)
(* (great_expectations/render/renderer/content_block/                      *)
(*  validation_results_table_content_block.py)                             *)
(*                                                                         *)
(* One render call: column discovery, in-place metadata normalisation,    *)
(* one row per validation result, then header and styling of the table.   *)
(***************************************************************************)
EXTENDS Integers, Sequences, FiniteSets, TLC

VARIABLES
    validation_results, \* the caller's list of results; meta is mutated in place
    input,              \* the list as the caller passed it to the first render
    registry,           \* what get_renderer_impl returns, per type and category
    pc,                 \* position in render
    custom_columns,     \* render's local custom_columns
    rows,               \* the rows row_generator_fn returned so far
    calls,              \* per row: what row_generator_fn invoked, logged, raised
    content_block,      \* the table: header_row, header_row_options, styling
    has_failed_evr,     \* the flag render hands to _process_content_block
    renders,            \* number of render calls started on these results
    meta_after,         \* metas after the normalisation pass of each render
    columns_before,     \* discovered columns of each render
    log                 \* number of logger.error entries

vars == <<validation_results, input, registry, pc, custom_columns, rows, calls,
          content_block, has_failed_evr, renders, meta_after, columns_before, log>>

----------------------------------------------------------------------------
(* Bounds *)

MaxOutcomes == 2
MaxRenders == 2

----------------------------------------------------------------------------
(* Python values.  A str is the sequence of its tokens, a token being "."  *)
(* or a non-empty run of characters other than ".".                        *)

Null == [t |-> "null"]
Str(p) == [t |-> "str", s |-> p]
Num(n) == [t |-> "num", n |-> n]
Map(f) == [t |-> "map", m |-> f]
List(l) == [t |-> "list", l |-> l]
Frag(x) == [t |-> "frag", f |-> x]

EmptyDict == [k \in {} |-> Null]

_custom_property_columns_key == "properties_to_render"

NA == Str(<<"N/A">>)
Placeholder == Str(<<"--">>)

(* str ordering as sorted() applies it to the names used here: code point  *)
(* order puts upper case before lower case.                                *)
StrOrder == <<"X", "Y", "note">>

StrRank(a) == CHOOSE i \in 1..Len(StrOrder) : StrOrder[i] = a

StrLess(a, b) == StrRank(a) < StrRank(b)

Contains(l, x) == \E i \in 1..Len(l) : l[i] = x

RECURSIVE Insert(_, _)
Insert(l, x) ==
    IF l = <<>> THEN <<x>>
    ELSE IF StrLess(x, Head(l)) THEN <<x>> \o l
    ELSE <<Head(l)>> \o Insert(Tail(l), x)

RECURSIVE Sorted(_)
Sorted(l) == IF l = <<>> THEN <<>> ELSE Insert(Sorted(Tail(l)), Head(l))

(* the keys of a dict in the order iteration yields them: insertion order, *)
(* which need not be sorted; the dicts here were filled in descending order *)
RECURSIVE Keys(_)
Keys(f) ==
    IF DOMAIN f = {} THEN <<>>
    ELSE LET k == CHOOSE k \in DOMAIN f : \A o \in DOMAIN f : o = k \/ StrLess(o, k)
         IN  <<k>> \o Keys([o \in DOMAIN f \ {k} |-> f[o]])

(* iter(x): the elements a for loop over x visits, or a TypeError *)
Iter(x) ==
    IF x.t = "map" THEN [raised |-> FALSE, val |-> Keys(x.m)]
    ELSE IF x.t = "list" THEN [raised |-> FALSE, val |-> x.l]
    ELSE [raised |-> TRUE, val |-> <<>>]

HasKey(meta) == meta.t = "map" /\ _custom_property_columns_key \in DOMAIN meta.m

Ptr(meta) == meta.m[_custom_property_columns_key]

----------------------------------------------------------------------------
(* _get_custom_columns *)

RECURSIVE AppendNew(_, _)
AppendNew(cols, keys) ==
    IF keys = <<>> THEN cols
    ELSE AppendNew(IF Contains(cols, Head(keys)) THEN cols
                   ELSE Append(cols, Head(keys)), Tail(keys))

RECURSIVE CollectColumns(_, _)
CollectColumns(results, cols) ==
    IF results = <<>> THEN [raised |-> FALSE, val |-> cols]
    ELSE LET meta == Head(results).meta IN
         IF meta.t # "null" /\ HasKey(meta)
         THEN LET it == Iter(Ptr(meta)) IN
              IF it.raised THEN [raised |-> TRUE, val |-> <<>>]
              ELSE CollectColumns(Tail(results), AppendNew(cols, it.val))
         ELSE CollectColumns(Tail(results), cols)

(* _get_custom_columns returning custom_columns without sorted() *)
_get_custom_columns_unsorted(results) == CollectColumns(results, <<>>)

_get_custom_columns(results) ==
    LET c == CollectColumns(results, <<>>) IN
    IF c.raised THEN c ELSE [raised |-> FALSE, val |-> Sorted(c.val)]

----------------------------------------------------------------------------
(* render, lines 63-77: the normalisation loop *)

(* SetDefault that never inserts the missing column *)
SetDefaultSkip(p, column) == [raised |-> FALSE, val |-> p]

(* SetDefault that assigns None whether or not the column is there *)
SetDefaultOverwrite(p, column) ==
    IF p.t = "map" THEN [raised |-> FALSE, val |-> Map((column :> Null) @@ p.m)]
    ELSE [raised |-> TRUE, val |-> p]

(* column not in d / d[column] = None, for one column *)
SetDefault(p, column) ==
    IF p.t = "map"
    THEN [raised |-> FALSE,
          val |-> IF column \in DOMAIN p.m THEN p
                  ELSE Map((column :> Null) @@ p.m)]
    ELSE IF p.t = "list"
    THEN IF Contains(p.l, column) THEN [raised |-> FALSE, val |-> p]
         ELSE [raised |-> TRUE, val |-> p]
    ELSE [raised |-> TRUE, val |-> p]

RECURSIVE FillColumns(_, _)
FillColumns(p, columns) ==
    IF columns = <<>> THEN [raised |-> FALSE, val |-> p]
    ELSE LET r == SetDefault(p, Head(columns)) IN
         IF r.raised THEN r ELSE FillColumns(r.val, Tail(columns))

NormalizeMeta(meta, columns) ==
    LET m0 == IF meta.t = "null"
              THEN (_custom_property_columns_key :> Map(EmptyDict))
              ELSE IF _custom_property_columns_key \notin DOMAIN meta.m
              THEN (_custom_property_columns_key :> Map(EmptyDict)) @@ meta.m
              ELSE meta.m
        r == FillColumns(m0[_custom_property_columns_key], columns)
    IN  [raised |-> r.raised,
         val |-> Map([m0 EXCEPT ![_custom_property_columns_key] = r.val])]

RECURSIVE NormalizeAll(_, _)
NormalizeAll(results, columns) ==
    IF results = <<>> THEN [raised |-> FALSE, val |-> <<>>]
    ELSE LET r == NormalizeMeta(Head(results).meta, columns)
             h == [Head(results) EXCEPT !.meta = r.val]
         IN  IF r.raised THEN [raised |-> TRUE, val |-> <<h>> \o Tail(results)]
             ELSE LET rest == NormalizeAll(Tail(results), columns)
                  IN  [raised |-> rest.raised, val |-> <<h>> \o rest.val]

----------------------------------------------------------------------------
(* row_generator_fn, lines 215-232: the custom property values *)

(* str.split("."): the text between separators, empty pieces included *)
RECURSIVE SplitAcc(_, _, _)
SplitAcc(tokens, cur, acc) ==
    IF tokens = <<>> THEN Append(acc, cur)
    ELSE IF Head(tokens) = "." THEN SplitAcc(Tail(tokens), "", Append(acc, cur))
    ELSE SplitAcc(Tail(tokens), cur \o Head(tokens), acc)

Split(value) == SplitAcc(value.s, "", <<>>)

(* obj = obj[v] for v in segments: "ok", or the exception raised *)
RECURSIVE Walk(_, _)
Walk(obj, segments) ==
    IF segments = <<>> THEN [st |-> "ok", val |-> obj]
    ELSE IF obj.t # "map" THEN [st |-> "TypeError", val |-> Null]
    ELSE IF Head(segments) \notin DOMAIN obj.m THEN [st |-> "KeyError", val |-> Null]
    ELSE Walk(obj.m[Head(segments)], Tail(segments))

(* one pass of the loop body at lines 221-231 *)
ResolveProperty(meta, value) ==
    IF value # Null
    THEN IF value.t # "str" THEN [raised |-> TRUE, val |-> <<>>]
         ELSE LET w == Walk(meta, Split(value)) IN
              IF w.st = "ok" THEN [raised |-> FALSE, val |-> <<List(<<w.val>>)>>]
              ELSE IF w.st = "KeyError" THEN [raised |-> FALSE, val |-> <<List(<<NA>>)>>]
              ELSE [raised |-> TRUE, val |-> <<>>]
    ELSE [raised |-> FALSE, val |-> <<List(<<NA>>)>>]

RECURSIVE ResolveKeys(_, _, _)
ResolveKeys(meta, keys, acc) ==
    IF keys = <<>> THEN [raised |-> FALSE, val |-> acc]
    ELSE LET p == Ptr(meta) IN
         IF p.t # "map" THEN [raised |-> TRUE, val |-> acc]
         ELSE LET r == ResolveProperty(meta, p.m[Head(keys)]) IN
              IF r.raised THEN [raised |-> TRUE, val |-> acc]
              ELSE ResolveKeys(meta, Tail(keys), acc \o r.val)

custom_property_values(meta) ==
    IF meta.t # "null" /\ HasKey(meta)
    THEN LET it == Iter(Ptr(meta)) IN
         IF it.raised THEN [raised |-> TRUE, val |-> <<>>]
         ELSE ResolveKeys(meta, Sorted(it.val), <<>>)
    ELSE [raised |-> FALSE, val |-> <<>>]

----------------------------------------------------------------------------
(* row_generator_fn *)

(* Guarded without the placeholder for a renderer the registry lacks *)
GuardedNoPlaceholder(r, default) ==
    IF ~r.found THEN [val |-> r.ret, invoked |-> FALSE, logged |-> 0]
    ELSE IF r.raises THEN [val |-> default, invoked |-> TRUE, logged |-> 1]
    ELSE [val |-> r.ret, invoked |-> TRUE, logged |-> 0]

(* the call of one resolved renderer inside its try block, lines 153-203:  *)
(* the value it contributes, whether it was invoked, whether it logged     *)
Guarded(r, default) ==
    IF ~r.found THEN [val |-> default, invoked |-> FALSE, logged |-> 0]
    ELSE IF r.raises THEN [val |-> default, invoked |-> TRUE, logged |-> 1]
    ELSE [val |-> r.ret, invoked |-> TRUE, logged |-> 0]

Mark(b, name) == IF b THEN <<name>> ELSE <<>>

(* MergeRow nesting the description whenever it is not empty *)
MergeRowNested(status_cell, cell, unexpected_statement, unexpected_table, observed_value) ==
    LET c1 == IF unexpected_statement # <<>> THEN cell \o unexpected_statement ELSE cell
        c2 == IF unexpected_table # Null THEN Append(c1, unexpected_table) ELSE c1
    IN  IF Len(c2) >= 1 THEN status_cell \o <<List(c2)>> \o observed_value
        ELSE status_cell \o c2 \o observed_value

(* lines 205-213 *)
MergeRow(status_cell, cell, unexpected_statement, unexpected_table, observed_value) ==
    LET c1 == IF unexpected_statement # <<>> THEN cell \o unexpected_statement ELSE cell
        c2 == IF unexpected_table # Null THEN Append(c1, unexpected_table) ELSE c1
    IN  IF Len(c2) > 1 THEN status_cell \o <<List(c2)>> \o observed_value
        ELSE status_cell \o c2 \o observed_value

(* NoRow logging the exception before it leaves row_generator_fn *)
NoRowLogged(invoked, logged) ==
    [raised |-> TRUE, table |-> <<>>, invoked |-> invoked, logged |-> logged + 1]

(* an exception that leaves row_generator_fn: no table is returned *)
NoRow(invoked, logged) ==
    [raised |-> TRUE, table |-> <<>>, invoked |-> invoked, logged |-> logged]

row_generator_fn(reg, result) ==
    LET expectation_string_fn == reg.prescriptive
        status_icon_renderer == reg.status_icon
        us == Guarded(reg.unexpected_statement, <<>>)
        ut == Guarded(reg.unexpected_table, Null)
        ov == Guarded(reg.observed_value, Placeholder)
        invoked == <<"prescriptive", "status_icon">>
                     \o Mark(us.invoked, "unexpected_statement")
                     \o Mark(ut.invoked, "unexpected_table")
                     \o Mark(ov.invoked, "observed_value")
        logged == us.logged + ut.logged + ov.logged
        cp == custom_property_values(result.meta)
    IN  IF expectation_string_fn.raises THEN NoRow(<<"prescriptive">>, 0)
        ELSE IF status_icon_renderer.raises
        THEN NoRow(<<"prescriptive", "status_icon">>, 0)
        ELSE IF cp.raised THEN NoRow(invoked, logged)
        ELSE [raised |-> FALSE,
              table |-> <<MergeRow(<<status_icon_renderer.ret>>,
                                   expectation_string_fn.ret,
                                   us.val, ut.val, <<ov.val>>) \o cp.val>>,
              invoked |-> invoked,
              logged |-> logged]

----------------------------------------------------------------------------
(* _process_content_block *)

_default_content_block_styling ==
    [none |-> FALSE,
     d |-> [body |-> <<"table">>,
            classes |-> <<"ml-2", "mr-2", "mt-0", "mb-0", "table-responsive">>]]

HideFlag == "hide-succeeded-validations-column-section-target-child"

Truthy(styling) == ~styling.none /\ DOMAIN styling.d # {}

(* Restyle assigning the flag as the only class *)
RestyleReplace(styling, failed) ==
    IF failed = FALSE
    THEN LET copy == IF Truthy(styling) THEN styling.d ELSE EmptyDict
         IN  [none |-> FALSE, d |-> ("classes" :> <<HideFlag>>) @@ copy]
    ELSE styling

(* lines 93-104 *)
Restyle(styling, failed) ==
    IF failed = FALSE
    THEN LET copy == IF Truthy(styling) THEN styling.d ELSE EmptyDict
         IN  [none |-> FALSE,
              d |-> IF "classes" \in DOMAIN copy /\ copy["classes"] # <<>>
                    THEN [copy EXCEPT !["classes"] = Append(@, HideFlag)]
                    ELSE ("classes" :> <<HideFlag>>) @@ copy]
    ELSE styling

(* lines 84-91; render_object is the list of results *)
Header(render_object) ==
    LET c == _get_custom_columns(render_object)
    IN  [raised |-> c.raised,
         header_row |-> <<"Status", "Expectation", "Observed Value">> \o c.val,
         header_row_options |->
             [col \in {"Status"} \cup {c.val[i] : i \in 1..Len(c.val)} |->
                 [sortable |-> TRUE]]]

_process_content_block(block, failed, render_object) ==
    LET h == Header(render_object)
    IN  [raised |-> h.raised,
         block |-> [header_row |-> h.header_row,
                    header_row_options |-> h.header_row_options,
                    styling |-> Restyle(block.styling, failed)]]

----------------------------------------------------------------------------
(* The inputs of a render call *)

Types == {"T1", "T2"}

Renderer(found, raises, ret) == [found |-> found, raises |-> raises, ret |-> ret]

(* what the registry, or the fallback of the class, gives for a type *)
Prescriptive ==
    { Renderer(TRUE, TRUE, <<>>),
      Renderer(TRUE, FALSE, <<>>),
      Renderer(FALSE, FALSE, <<Frag("missing")>>),
      Renderer(TRUE, FALSE, <<Frag("d1"), Frag("d2")>>) }

StatusIcon ==
    { Renderer(TRUE, FALSE, Frag("icon")),
      Renderer(FALSE, FALSE, Frag("default_icon")),
      Renderer(TRUE, TRUE, Null) }

UnexpectedStatement ==
    { Renderer(FALSE, FALSE, <<>>),
      Renderer(TRUE, TRUE, <<>>),
      Renderer(TRUE, FALSE, <<Frag("s1")>>) }

UnexpectedTable ==
    { Renderer(FALSE, FALSE, Null),
      Renderer(TRUE, TRUE, Null),
      Renderer(TRUE, FALSE, Frag("unexpected_table")) }

ObservedValue ==
    { Renderer(FALSE, FALSE, Null),
      Renderer(TRUE, TRUE, Null),
      Renderer(TRUE, FALSE, Frag("observed")) }

Renderers ==
    [prescriptive : Prescriptive, status_icon : StatusIcon,
     unexpected_statement : UnexpectedStatement,
     unexpected_table : UnexpectedTable, observed_value : ObservedValue]

PlainRenderers ==
    [prescriptive |-> Renderer(TRUE, FALSE, <<Frag("d1")>>),
     status_icon |-> Renderer(TRUE, FALSE, Frag("icon")),
     unexpected_statement |-> Renderer(TRUE, FALSE, <<>>),
     unexpected_table |-> Renderer(TRUE, FALSE, Null),
     observed_value |-> Renderer(TRUE, FALSE, Frag("observed"))]

DetailRenderers ==
    [prescriptive |-> Renderer(TRUE, FALSE, <<Frag("d1")>>),
     status_icon |-> Renderer(FALSE, FALSE, Frag("default_icon")),
     unexpected_statement |-> Renderer(TRUE, FALSE, <<Frag("s1")>>),
     unexpected_table |-> Renderer(TRUE, FALSE, Frag("unexpected_table")),
     observed_value |-> Renderer(TRUE, FALSE, Frag("observed"))]

Data == [a |-> Map([b |-> Num(5)])]

Noted == [note |-> Str(<<"overflow">>)]

WithColumns(data, columns) == Map((_custom_property_columns_key :> columns) @@ data)

Metas ==
    { Null,
      Map(Data),
      WithColumns(Data, Map([X |-> Str(<<"a", ".", "b">>)])),
      WithColumns(Data, Map([X |-> Str(<<"a", ".", "c">>)])),
      WithColumns(Data, Map([X |-> Null])),
      WithColumns(Data, Map([X |-> Str(<<"a", ".", "b", ".", "c">>)])),
      WithColumns(Data, Map([Y |-> Str(<<"a">>)])),
      WithColumns(Noted, Map([note |-> Str(<<"meta", ".", "note">>)])),
      WithColumns(Noted, Map([Y |-> Str(<<"note">>), X |-> Str(<<"a", ".">>)])),
      WithColumns(Data, Null),
      WithColumns(Data, List(<<"X">>)),
      WithColumns(Data, List(<<>>)) }

Result(type, success, meta) == [type |-> type, success |-> success, meta |-> meta]

(* results whose metadata varies, rendered by plain renderers *)
MetaResults ==
    {Result("T1", TRUE, m) : m \in Metas} \cup {Result("T2", FALSE, m) : m \in Metas}

(* results whose renderers vary *)
RendererResults ==
    { Result("T1", TRUE, Null),
      Result("T2", TRUE, Map(Data)),
      Result("T2", FALSE,
             WithColumns(Noted, Map([Y |-> Str(<<"note">>), X |-> Str(<<"a", ".">>)]))) }

Lists(S) == UNION {[1..n -> S] : n \in 1..MaxOutcomes}

Stylings ==
    { [none |-> TRUE, d |-> EmptyDict],
      [none |-> FALSE, d |-> [body |-> <<"table">>]],
      _default_content_block_styling }

NoBlock ==
    [header_row |-> <<>>, header_row_options |-> EmptyDict,
     styling |-> [none |-> TRUE, d |-> EmptyDict]]

MetasOf(results) == [i \in 1..Len(results) |-> results[i].meta]

Init ==
    /\ \/ /\ validation_results \in Lists(MetaResults)
          /\ registry = [T1 |-> PlainRenderers, T2 |-> DetailRenderers]
       \/ /\ validation_results \in Lists(RendererResults)
          /\ registry \in {[T1 |-> PlainRenderers, T2 |-> r] : r \in Renderers}
    /\ input = validation_results
    /\ pc = "start"
    /\ custom_columns = <<>>
    /\ rows = <<>>
    /\ calls = <<>>
    /\ content_block = NoBlock
    /\ has_failed_evr = FALSE
    /\ renders = 1
    /\ meta_after = <<>>
    /\ columns_before = <<>>
    /\ log = 0

----------------------------------------------------------------------------
(* render *)

(* line 62 *)
Discover ==
    /\ pc = "start"
    /\ LET c == _get_custom_columns(validation_results) IN
       /\ custom_columns' = c.val
       /\ columns_before' = IF c.raised THEN columns_before
                            ELSE Append(columns_before, c.val)
       /\ pc' = IF c.raised THEN "raised" ELSE "normalize"
    /\ UNCHANGED <<validation_results, input, registry, rows, calls, content_block,
                   has_failed_evr, renders, meta_after, log>>

(* lines 63-77 *)
Normalize ==
    /\ pc = "normalize"
    /\ LET r == NormalizeAll(validation_results, custom_columns) IN
       /\ validation_results' = r.val
       /\ meta_after' = IF r.raised THEN meta_after
                        ELSE Append(meta_after, MetasOf(r.val))
       /\ pc' = IF r.raised THEN "raised" ELSE "rows"
    /\ UNCHANGED <<input, registry, custom_columns, rows, calls, content_block,
                   has_failed_evr, renders, columns_before, log>>

(* the loop of the inherited render over the results *)
Failed(flag, result) == flag \/ ~result.success

(* line 79: the next result's row *)
GenerateRow ==
    /\ pc = "rows"
    /\ Len(calls) < Len(validation_results)
    /\ LET result == validation_results[Len(calls) + 1]
           r == row_generator_fn(registry[result.type], result)
       IN  /\ calls' = Append(calls, [raised |-> r.raised, invoked |-> r.invoked,
                                      logged |-> r.logged])
           /\ rows' = rows \o r.table
           /\ log' = log + r.logged
           /\ has_failed_evr' = Failed(has_failed_evr, result)
           /\ pc' = IF r.raised THEN "raised" ELSE "rows"
    /\ UNCHANGED <<validation_results, input, registry, custom_columns, content_block,
                   renders, meta_after, columns_before>>

(* line 79: the table of the rows is built with the styling of the call *)
BuildContentBlock ==
    /\ pc = "rows"
    /\ Len(calls) = Len(validation_results)
    /\ \E styling \in Stylings : content_block' = [NoBlock EXCEPT !.styling = styling]
    /\ pc' = "block"
    /\ UNCHANGED <<validation_results, input, registry, custom_columns, rows, calls,
                   has_failed_evr, renders, meta_after, columns_before, log>>

(* line 79: the table is handed to _process_content_block *)
ProcessContentBlock ==
    /\ pc = "block"
    /\ LET p == _process_content_block(content_block, has_failed_evr, validation_results)
       IN  /\ content_block' = p.block
           /\ pc' = IF p.raised THEN "raised" ELSE "done"
    /\ UNCHANGED <<validation_results, input, registry, custom_columns, rows, calls,
                   has_failed_evr, renders, meta_after, columns_before, log>>

(* the caller renders the same results once more *)
RenderAgain ==
    /\ pc = "done"
    /\ renders < MaxRenders
    /\ renders' = renders + 1
    /\ pc' = "start"
    /\ custom_columns' = <<>>
    /\ rows' = <<>>
    /\ calls' = <<>>
    /\ content_block' = NoBlock
    /\ has_failed_evr' = FALSE
    /\ UNCHANGED <<validation_results, input, registry, meta_after, columns_before, log>>

Next ==
    \/ Discover
    \/ Normalize
    \/ GenerateRow
    \/ BuildContentBlock
    \/ ProcessContentBlock
    \/ RenderAgain

Spec == Init /\ [][Next]_vars

----------------------------------------------------------------------------
(* Vocabulary of the properties *)

Elems(l) == {l[i] : i \in 1..Len(l)}

Last(l) == l[Len(l)]

Classes(styling) ==
    IF styling.none \/ "classes" \notin DOMAIN styling.d THEN <<>>
    ELSE styling.d["classes"]

KeySet(p) == IF p.t = "map" THEN DOMAIN p.m ELSE IF p.t = "list" THEN Elems(p.l) ELSE {}

Fails(r) == ~r.found \/ r.raises

Contribution(r, default) == IF Fails(r) THEN default ELSE r.ret

DescriptionRaises(reg) == reg.prescriptive.raises \/ reg.status_icon.raises

RegistryOf(i) == registry[validation_results[i].type]

(* the number of custom cells of the row of result i *)
Width(i) == Cardinality(KeySet(Ptr(validation_results[i].meta)))

----------------------------------------------------------------------------
(* C1: within one render call every row the row generator returns has      *)
(* length 3 + the number of discovered columns, whatever the prescriptive  *)
(* and diagnostic renderers return (an empty fragment list included).      *)
RowWidthInvariant ==
    \A i \in 1..Len(rows) : Len(rows[i]) = 3 + Len(custom_columns)

----------------------------------------------------------------------------
(* C2: a diagnostic renderer (unexpected_statement, unexpected_table,      *)
(* observed_value) that is missing from the registry or raises still       *)
(* leaves a complete row: its contribution is the documented default       *)
(* (no fragments, no table, "--"), the rest of the row is what it would be *)
(* had the renderer returned that default without failing, and the rows of *)
(* results rendered by other renderers are the plain rows.                 *)
Healthy(reg) ==
    [reg EXCEPT
       !.unexpected_statement = IF Fails(@) THEN Renderer(TRUE, FALSE, <<>>) ELSE @,
       !.unexpected_table = IF Fails(@) THEN Renderer(TRUE, FALSE, Null) ELSE @,
       !.observed_value = IF Fails(@) THEN Renderer(TRUE, FALSE, Placeholder) ELSE @]

FaultIsolation ==
    \A i \in 1..Len(calls) :
        LET result == validation_results[i]
            reg == RegistryOf(i)
        IN  (~DescriptionRaises(reg) /\ ~custom_property_values(result.meta).raised)
            => /\ ~calls[i].raised
               /\ i <= Len(rows)
               /\ rows[i] = row_generator_fn(Healthy(reg), result).table[1]
               /\ Fails(reg.observed_value)
                    => rows[i][Len(rows[i]) - Width(i)] = Placeholder
               /\ Fails(reg.unexpected_statement) => \A c \in Elems(rows[i]) :
                        c # Frag("s1") /\ (c.t = "list" => ~Contains(c.l, Frag("s1")))
               /\ Fails(reg.unexpected_table) => \A c \in Elems(rows[i]) :
                        /\ c # Frag("unexpected_table")
                        /\ c.t = "list" => ~Contains(c.l, Frag("unexpected_table"))
               /\ result.type = "T1"
                    => SubSeq(rows[i], 1, 3)
                         = <<Frag("icon"), Frag("d1"), Frag("observed")>>

FaultIsolationWitness ==
    \E i, j \in 1..Len(rows) :
        /\ i < j
        /\ validation_results[i].type = "T2"
        /\ validation_results[j].type = "T1"
        /\ RegistryOf(i).observed_value.raises
        /\ RegistryOf(i).unexpected_table.raises
        /\ ~RegistryOf(i).unexpected_statement.found
        /\ rows[i][Len(rows[i]) - Width(i)] = Placeholder

----------------------------------------------------------------------------
(* C3: for each discovered column, in sorted order, row assembly emits     *)
(* exactly one cell: ["N/A"] when the stored path is null or when a        *)
(* segment of the path is missing, an intermediate value that is not a     *)
(* mapping included, and [resolvedValue] otherwise; it never raises.       *)
ClaimedCell(meta, value) ==
    IF value = Null THEN List(<<NA>>)
    ELSE LET w == Walk(meta, Split(value))
         IN  IF w.st = "ok" THEN List(<<w.val>>) ELSE List(<<NA>>)

CustomColumnResolution ==
    \A i \in 1..Len(calls) :
        LET meta == validation_results[i].meta
            n == Len(custom_columns)
        IN  (~DescriptionRaises(RegistryOf(i)) /\ Ptr(meta).t = "map")
            => /\ ~calls[i].raised
               /\ i <= Len(rows)
               /\ \A k \in 1..n :
                     rows[i][Len(rows[i]) - n + k]
                       = ClaimedCell(meta, Ptr(meta).m[custom_columns[k]])

----------------------------------------------------------------------------
(* C4: the end-to-end scenario.  Two results, T1 passing without custom    *)
(* columns, T2 failing with the mapping {note: "meta.note"} and metadata   *)
(* {note: "overflow"}.                                                     *)
ScenarioInputs ==
    { <<Result("T1", TRUE, m),
        Result("T2", FALSE,
               WithColumns(Noted, Map([note |-> Str(<<"meta", ".", "note">>)])))>>
        : m \in {Null, Map(Data)} }

ScenarioTable(last) ==
    /\ content_block.header_row = <<"Status", "Expectation", "Observed Value", "note">>
    /\ Len(rows) = 2
    /\ Last(rows[1]) = List(<<NA>>)
    /\ Last(rows[2]) = List(<<last>>)
    /\ ~Contains(Classes(content_block.styling), HideFlag)

(* C4 as stated: the second row ends in "overflow" *)
ScenarioOverflow ==
    (input \in ScenarioInputs /\ pc = "done") => ScenarioTable(Str(<<"overflow">>))

(* C4 amended: the scenario gives the stated header, a first row ending in *)
(* "N/A", no all-success flag, and a second row ending in "N/A", the path  *)
(* "meta.note" being walked from the metadata mapping, which has no "meta" *)
ScenarioNotAvailable ==
    (input \in ScenarioInputs /\ pc = "done") => ScenarioTable(NA)

ScenarioWitness ==
    input \in ScenarioInputs /\ pc = "done" /\ Len(rows) = 2 /\ Len(rows[2]) = 4

----------------------------------------------------------------------------
(* C5: column discovery returns the same list for every permutation of the *)
(* results; the list holds each distinct custom column name once, in       *)
(* ascending order; it is empty when no result defines the reserved key;   *)
(* and discovery leaves the results as they were.                          *)
Permuted(results, p) == [i \in 1..Len(results) |-> results[p[i]]]

Defined(results) ==
    UNION { IF HasKey(results[i].meta) THEN KeySet(Ptr(results[i].meta)) ELSE {}
            : i \in 1..Len(results) }

DiscoveryOrderIndependent ==
    LET c == _get_custom_columns(validation_results) IN
    /\ \A p \in Permutations(1..Len(validation_results)) :
          _get_custom_columns(Permuted(validation_results, p)) = c
    /\ ~c.raised
         => /\ Elems(c.val) = Defined(validation_results)
            /\ \A i, j \in 1..Len(c.val) : i < j => StrLess(c.val[i], c.val[j])
    /\ (\A i \in 1..Len(validation_results) : ~HasKey(validation_results[i].meta))
         => c = [raised |-> FALSE, val |-> <<>>]
    /\ (pc = "normalize" /\ renders = 1)
         => validation_results = input /\ custom_columns = c.val

DiscoveryWitness ==
    /\ pc = "normalize"
    /\ Len(validation_results) = 2
    /\ HasKey(validation_results[1].meta)
    /\ KeySet(Ptr(validation_results[1].meta)) = {"Y"}
    /\ HasKey(validation_results[2].meta)
    /\ KeySet(Ptr(validation_results[2].meta)) = {"X", "Y"}
    /\ custom_columns = <<"X", "Y">>

----------------------------------------------------------------------------
(* C6: the discover-then-normalise pass is idempotent: a second pass over  *)
(* the same results leaves every metadata as the first pass left it; a     *)
(* pass only adds the reserved key and null entries for discovered columns *)
(* and never changes or removes an entry that was there.                   *)
OnlyAdds(before, after, columns) ==
    LET old == IF before.t = "null" THEN EmptyDict ELSE before.m
        oldp == IF HasKey(before) THEN Ptr(before) ELSE Map(EmptyDict)
    IN  /\ after.t = "map"
        /\ DOMAIN after.m = DOMAIN old \cup {_custom_property_columns_key}
        /\ \A k \in DOMAIN old \ {_custom_property_columns_key} : after.m[k] = old[k]
        /\ Ptr(after).t = oldp.t
        /\ oldp.t = "list" => Ptr(after) = oldp
        /\ oldp.t = "map"
             => /\ DOMAIN Ptr(after).m = DOMAIN oldp.m \cup Elems(columns)
                /\ \A k \in DOMAIN oldp.m : Ptr(after).m[k] = oldp.m[k]
                /\ \A k \in DOMAIN Ptr(after).m \ DOMAIN oldp.m : Ptr(after).m[k] = Null

NormalizationIdempotent ==
    /\ Len(meta_after) >= 1
         => \A i \in 1..Len(input) :
                OnlyAdds(input[i].meta, meta_after[1][i], columns_before[1])
    /\ \A n \in 2..Len(meta_after) :
           meta_after[n] = meta_after[1] /\ columns_before[n] = columns_before[1]
    /\ pc \in {"rows", "block", "done"} => MetasOf(validation_results) = Last(meta_after)

NormalizationWitness ==
    /\ Len(meta_after) = 2
    /\ Len(input) = 2
    /\ input[1].meta = Null
    /\ HasKey(input[2].meta)
    /\ Ptr(input[2].meta).t = "map"
    /\ DOMAIN Ptr(input[2].meta).m = {"X", "Y"}
    /\ DOMAIN Ptr(meta_after[2][1]).m = {"X", "Y"}

----------------------------------------------------------------------------
(* C7: the table's styling classes hold the all-success flag exactly when  *)
(* no result failed, and adding the flag keeps every class the table had.  *)
AllSucceeded == \A i \in 1..Len(validation_results) : validation_results[i].success

AllSuccessStyling ==
    /\ [](pc = "done"
            => (Contains(Classes(content_block.styling), HideFlag) <=> AllSucceeded))
    /\ [][pc = "block" /\ Contains(Classes(content_block.styling'), HideFlag)
            => /\ \A c \in Elems(Classes(content_block.styling)) :
                     Contains(Classes(content_block.styling'), c)
               /\ Len(Classes(content_block.styling'))
                     = Len(Classes(content_block.styling)) + 1]_vars

AllSuccessWitness ==
    /\ pc = "done"
    /\ AllSucceeded
    /\ Len(Classes(content_block.styling)) = 6
    /\ Last(Classes(content_block.styling)) = HideFlag

----------------------------------------------------------------------------
(* C8: when the prescriptive renderer raises, row assembly raises: no row  *)
(* for that result, no diagnostic renderer invoked, nothing logged, and    *)
(* the render call ends there; an error in column discovery or in          *)
(* normalisation likewise ends the call before any row or log entry.       *)
DiscoveryFails(results) ==
    \E i \in 1..Len(results) :
        HasKey(results[i].meta) /\ Ptr(results[i].meta).t \notin {"map", "list"}

NormalizationFails(results) ==
    \E i \in 1..Len(results) :
        /\ HasKey(results[i].meta)
        /\ Ptr(results[i].meta).t = "list"
        /\ Defined(results) # Elems(Ptr(results[i].meta).l)

DescriptionFailurePropagates ==
    /\ \A i \in 1..Len(calls) :
          RegistryOf(i).prescriptive.raises
            => /\ calls[i] = [raised |-> TRUE, invoked |-> <<"prescriptive">>, logged |-> 0]
               /\ i = Len(calls)
               /\ Len(rows) = i - 1
               /\ pc = "raised"
    /\ (DiscoveryFails(input) /\ pc # "start")
         => pc = "raised" /\ rows = <<>> /\ calls = <<>> /\ log = 0
                /\ validation_results = input
    /\ (~DiscoveryFails(input) /\ NormalizationFails(input) /\ pc \notin {"start", "normalize"})
         => pc = "raised" /\ rows = <<>> /\ calls = <<>> /\ log = 0

DescriptionFailureWitness ==
    /\ pc = "raised"
    /\ Len(calls) = 2
    /\ RegistryOf(2).prescriptive.raises
    /\ RegistryOf(2).observed_value.raises
    /\ Len(rows) = 1
    /\ log = 0

DiscoveryFailureWitness ==
    pc = "raised" /\ calls = <<>> /\ DiscoveryFails(input)

NormalizationFailureWitness ==
    pc = "raised" /\ calls = <<>> /\ ~DiscoveryFails(input) /\ NormalizationFails(input)

----------------------------------------------------------------------------
(* C9: the row is the status cell, the description, the observed value and *)
(* the custom cells, in that order; the description is the prescriptive    *)
(* fragments followed by the unexpected-statement fragments and then the   *)
(* unexpected table if there is one, placed as a single nested element     *)
(* when it holds more than one fragment and fragment by fragment otherwise *)
Merged(reg) ==
    LET unexpected_table == Contribution(reg.unexpected_table, Null)
    IN  reg.prescriptive.ret
          \o Contribution(reg.unexpected_statement, <<>>)
          \o (IF unexpected_table = Null THEN <<>> ELSE <<unexpected_table>>)

MergePolicy ==
    \A i \in 1..Len(rows) :
        LET reg == RegistryOf(i)
            row == rows[i]
            merged == Merged(reg)
            n == Width(i)
            d == Len(row) - n - 2
        IN  /\ row[1] = reg.status_icon.ret
            /\ d >= 0
            /\ row[d + 2] = Contribution(reg.observed_value, Placeholder)
            /\ SubSeq(row, d + 3, Len(row))
                 = custom_property_values(validation_results[i].meta).val
            /\ \A k \in d + 3..Len(row) : row[k].t = "list" /\ Len(row[k].l) = 1
            /\ IF Len(merged) > 1 THEN d = 1 /\ row[2] = List(merged)
               ELSE SubSeq(row, 2, d + 1) = merged

MergeWitness ==
    \E i, j \in 1..Len(rows) :
        /\ Len(Merged(RegistryOf(i))) = 3
        /\ Width(i) = 2
        /\ Len(rows[i]) = 5
        /\ Len(Merged(RegistryOf(j))) = 1
        /\ rows[j][2].t = "frag"

----------------------------------------------------------------------------
(* C10: after the normalisation pass every result's custom-column mapping  *)
(* has exactly the discovered names as its keys, discovery run again gives *)
(* the same list, and in every row the cell at position 3+k holds the      *)
(* value resolved for the header's column at position 3+k.                 *)
HeaderRowAlignment ==
    pc = "done"
    => /\ \A i \in 1..Len(validation_results) :
             KeySet(Ptr(validation_results[i].meta)) = Elems(custom_columns)
       /\ _get_custom_columns(validation_results).val = custom_columns
       /\ content_block.header_row
            = <<"Status", "Expectation", "Observed Value">> \o custom_columns
       /\ \A i \in 1..Len(rows) : \A k \in 1..Len(custom_columns) :
             /\ 3 + k <= Len(rows[i])
             /\ LET meta == validation_results[i].meta
                    column == content_block.header_row[3 + k]
                IN  <<rows[i][3 + k]>> = ResolveProperty(meta, Ptr(meta).m[column]).val

====
